---- MODULE Spec2Model ----
(***************************************************************************)
(* Model of atlas-protocol/src/App.jsx: the App component (location        *)
(* registry, selection, wallet) and the BountyPanel component (evidence    *)
(* form, isVerifying flag, phase counter `step`, and the three setTimeout  *)
(* callbacks scheduled by handleSubmit).                                   *)
(*                                                                         *)
(* Money is counted in cents (124.50 -> 12450), positions in tenths        *)
(* (0.5 -> 5), time in milliseconds.  BountyPanel is always mounted by     *)
(* App, so its hook state (formData, isVerifying, step) lives as long as   *)
(* the page and is not reset when the panel renders null.                  *)
(***************************************************************************)
EXTENDS Integers, Sequences, FiniteSets

VARIABLES
    locations,    \* App: useState(LOCATIONS)
    selectedId,   \* App: useState(null)
    balance,      \* App: useState(INITIAL_BALANCE)
    formData,     \* BountyPanel: useState({ image: null, description: '' })
    isVerifying,  \* BountyPanel: useState(false)
    step,         \* BountyPanel: useState(0)
    pending       \* the event loop's timer list: callbacks scheduled by setTimeout and not yet run

vars == <<locations, selectedId, balance, formData, isVerifying, step, pending>>

----------------------------------------------------------------------------
\* Bounds of the model.

\* Distinct files the user can pick as evidence: 1..MaxFiles.
MaxFiles == 2

\* Longest observation note typed into the textarea.
MaxNoteLen == 2

\* Granularity with which the passage of time is observed, in ms.
Quantum == 500

----------------------------------------------------------------------------
\* Constants of the program.

NULL == 0

INITIAL_BALANCE == 12450

BOUNTY_REWARD == 1500

LOCATIONS ==
    << [id |-> 1, name |-> "The Grand Cafe",    position |-> <<0, 5, 0>>,     status |-> "stale", type |-> "cafe"],
       [id |-> 2, name |-> "Blackwell's Books", position |-> <<-40, 5, -20>>, status |-> "fresh", type |-> "shop"],
       [id |-> 3, name |-> "Radcliffe Camera",  position |-> <<30, 5, -30>>,  status |-> "fresh", type |-> "landmark"],
       [id |-> 4, name |-> "Covered Market",    position |-> <<20, 5, 40>>,   status |-> "fresh", type |-> "market"],
       [id |-> 5, name |-> "Ashmolean Museum",  position |-> <<-30, 5, 50>>,  status |-> "fresh", type |-> "museum"] >>

\* The beacons the scene renders, one per registry entry: the ids a click can carry.
BeaconIds == {locations[i].id : i \in DOMAIN locations}

\* e.target.files of the file input: empty when the dialog is cancelled.
FileLists == {<<>>} \cup {<<f>> : f \in 1..MaxFiles}

\* e.target.value of the textarea.
NoteValues == UNION {[1..n -> {"a"}] : n \in 0..MaxNoteLen}

----------------------------------------------------------------------------
\* Derived state and render guards.

\* locations.find(l => l.id === selectedId): <<>> for undefined, <<l>> when found.
selectedLocation ==
    LET S == {i \in DOMAIN locations : locations[i].id = selectedId}
    IN  IF S = {} THEN <<>>
        ELSE <<locations[CHOOSE i \in S : \A j \in S : i <= j]>>

FormRenderedNoVerifyGuard ==
    /\ selectedLocation # <<>>
    /\ selectedLocation[1].status = "stale"

FormRenderedNoStaleGuard ==
    /\ selectedLocation # <<>>
    /\ ~isVerifying

\* The bounty form (file input, textarea, submit button) is in the DOM.
FormRendered ==
    /\ selectedLocation # <<>>
    /\ selectedLocation[1].status = "stale"
    /\ ~isVerifying

----------------------------------------------------------------------------
\* Timers.

SessionTimersSwapped(id) ==
    << [cb |-> "step2",  delay |-> 3000, id |-> id],
       [cb |-> "step3",  delay |-> 1500, id |-> id],
       [cb |-> "finish", delay |-> 4000, id |-> id] >>

\* The three setTimeout calls of handleSubmit, in call order; id is the
\* selectedLocation.id of the render whose handleSubmit closure scheduled them.
SessionTimers(id) ==
    << [cb |-> "step2",  delay |-> 1500, id |-> id],
       [cb |-> "step3",  delay |-> 3000, id |-> id],
       [cb |-> "finish", delay |-> 4000, id |-> id] >>

MinDelay == CHOOSE d \in {pending[i].delay : i \in DOMAIN pending} :
                \A i \in DOMAIN pending : d <= pending[i].delay

\* The timer the event loop runs next: the earliest-scheduled one among those due.
NextDue ==
    LET D == {i \in DOMAIN pending : pending[i].delay = 0}
    IN  IF D = {} THEN 0 ELSE CHOOSE i \in D : \A j \in D : i <= j

Remove(s, i) == [j \in 1..(Len(s) - 1) |-> IF j < i THEN s[j] ELSE s[j + 1]]

----------------------------------------------------------------------------
\* App: state and handlers.

Init ==
    /\ locations = LOCATIONS
    /\ selectedId = NULL
    /\ balance = INITIAL_BALANCE
    /\ formData = [image |-> NULL, description |-> <<>>]
    /\ isVerifying = FALSE
    /\ step = 0
    /\ pending = <<>>

handleVerifyNoCredit(id) ==
    /\ locations' = [i \in DOMAIN locations |->
                        IF locations[i].id = id
                        THEN [locations[i] EXCEPT !.status = "fresh"]
                        ELSE locations[i]]
    /\ balance' = balance

handleVerifyFilter(id) ==
    /\ locations' = SelectSeq([i \in DOMAIN locations |->
                                  [locations[i] EXCEPT !.status = "fresh"]],
                              LAMBDA loc : loc.id = id)
    /\ balance' = balance + BOUNTY_REWARD

\* handleVerify: both updates are functional (prev => ...), applied to the
\* current state whichever render's closure makes the call.
handleVerify(id) ==
    /\ locations' = [i \in DOMAIN locations |->
                        IF locations[i].id = id
                        THEN [locations[i] EXCEPT !.status = "fresh"]
                        ELSE locations[i]]
    /\ balance' = balance + BOUNTY_REWARD

\* A click on the beacon of location id (beacons exist only for registry entries).
onClick(id) ==
    /\ id \in BeaconIds
    /\ selectedId' = id
    /\ UNCHANGED <<locations, balance, formData, isVerifying, step, pending>>

onCloseCancelsTimers ==
    /\ selectedLocation # <<>>
    /\ selectedId' = NULL
    /\ pending' = <<>>
    /\ UNCHANGED <<locations, balance, formData, isVerifying, step>>

onCloseResets ==
    /\ selectedLocation # <<>>
    /\ selectedId' = NULL
    /\ formData' = [image |-> NULL, description |-> <<>>]
    /\ isVerifying' = FALSE
    /\ step' = 0
    /\ UNCHANGED <<locations, balance, pending>>

\* The panel's close button; it is rendered only while a location is selected.
onClose ==
    /\ selectedLocation # <<>>
    /\ selectedId' = NULL
    /\ UNCHANGED <<locations, balance, formData, isVerifying, step, pending>>

----------------------------------------------------------------------------
\* BountyPanel: form handlers.

handleFileChange(files) ==
    /\ FormRendered
    /\ IF files # <<>>
       THEN formData' = [formData EXCEPT !.image = files[1]]
       ELSE formData' = formData
    /\ UNCHANGED <<locations, selectedId, balance, isVerifying, step, pending>>

handleDescriptionChange(value) ==
    /\ FormRendered
    /\ formData' = [formData EXCEPT !.description = value]
    /\ UNCHANGED <<locations, selectedId, balance, isVerifying, step, pending>>

handleSubmitNoImageGuard ==
    /\ FormRendered
    /\ isVerifying' = TRUE
    /\ step' = 1
    /\ pending' = pending \o SessionTimers(selectedLocation[1].id)
    /\ UNCHANGED <<locations, selectedId, balance, formData>>

\* The form's submit event.  The submit button is disabled without an image,
\* and the handler returns early in that case however the event was raised.
handleSubmit ==
    /\ FormRendered
    /\ IF formData.image = NULL
       THEN UNCHANGED vars
       ELSE /\ isVerifying' = TRUE
            /\ step' = 1
            /\ pending' = pending \o SessionTimers(selectedLocation[1].id)
            /\ UNCHANGED <<locations, selectedId, balance, formData>>

----------------------------------------------------------------------------
\* The event loop: time passing and timer callbacks.

\* The amounts of time that can elapse before the next look at the clock:
\* whole quanta short of the next due time, or exactly up to it.
TickSteps ==
    {k * Quantum : k \in 1..(MinDelay \div Quantum)} \cup {MinDelay}

\* Time elapses while no timer is due; it never runs past the next due time
\* before that timer's callback has run.
Tick ==
    /\ pending # <<>>
    /\ NextDue = 0
    /\ \E d \in TickSteps :
           pending' = [i \in DOMAIN pending |-> [pending[i] EXCEPT !.delay = @ - d]]
    /\ UNCHANGED <<locations, selectedId, balance, formData, isVerifying, step>>

\* () => setStep(2)
TimerStep2 ==
    /\ NextDue # 0
    /\ pending[NextDue].cb = "step2"
    /\ step' = 2
    /\ pending' = Remove(pending, NextDue)
    /\ UNCHANGED <<locations, selectedId, balance, formData, isVerifying>>

\* () => { setStep(3); }
TimerStep3 ==
    /\ NextDue # 0
    /\ pending[NextDue].cb = "step3"
    /\ step' = 3
    /\ pending' = Remove(pending, NextDue)
    /\ UNCHANGED <<locations, selectedId, balance, formData, isVerifying>>

TimerFinishClosesPanel ==
    /\ NextDue # 0
    /\ pending[NextDue].cb = "finish"
    /\ handleVerify(pending[NextDue].id)
    /\ isVerifying' = FALSE
    /\ formData' = [image |-> NULL, description |-> <<>>]
    /\ step' = 0
    /\ pending' = Remove(pending, NextDue)
    /\ selectedId' = NULL

\* The completion callback: onVerify(selectedLocation.id) with the captured
\* selectedLocation, then the three resets; one event-loop task.
TimerFinish ==
    /\ NextDue # 0
    /\ pending[NextDue].cb = "finish"
    /\ handleVerify(pending[NextDue].id)
    /\ isVerifying' = FALSE
    /\ formData' = [image |-> NULL, description |-> <<>>]
    /\ step' = 0
    /\ pending' = Remove(pending, NextDue)
    /\ UNCHANGED selectedId

----------------------------------------------------------------------------

Next ==
    \/ \E id \in BeaconIds : onClick(id)
    \/ onClose
    \/ \E files \in FileLists : handleFileChange(files)
    \/ \E value \in NoteValues : handleDescriptionChange(value)
    \/ handleSubmit
    \/ Tick
    \/ TimerStep2
    \/ TimerStep3
    \/ TimerFinish

Spec == Init /\ [][Next]_vars

\* Timers that are due do run, and time does pass.
FairSpec ==
    /\ Spec
    /\ WF_vars(Tick)
    /\ WF_vars(TimerStep2)
    /\ WF_vars(TimerStep3)
    /\ WF_vars(TimerFinish)

----------------------------------------------------------------------------
\* Vocabulary of the properties.

EmptyForm == [image |-> NULL, description |-> <<>>]

SeedIds == {LOCATIONS[i].id : i \in DOMAIN LOCATIONS}

IsFresh(id) ==
    \E i \in DOMAIN locations : locations[i].id = id /\ locations[i].status = "fresh"

IsStale(id) ==
    \E i \in DOMAIN locations : locations[i].id = id /\ locations[i].status = "stale"

\* A session targeting location id still has its completion callback pending.
InFlight(id) ==
    \E i \in DOMAIN pending : pending[i].cb = "finish" /\ pending[i].id = id

\* The step about to be taken can only be the completion callback.
FinishIsNext == NextDue # 0 /\ pending[NextDue].cb = "finish"

Balances == {INITIAL_BALANCE + k * BOUNTY_REWARD : k \in 0..Len(LOCATIONS)}

----------------------------------------------------------------------------
\* C1: the phase only ever advances 0 -> 1 -> 2 -> 3 -> 0: every step that
\* changes the phase, starts a session or runs a timer callback moves the phase
\* to its successor, and the number of callbacks still pending determines the
\* phase, so that no phase is skipped, repeated or revisited in a session,
\* whatever user actions are interleaved.
C1_PhaseOrder ==
    [][ (step' # step \/ Len(pending') # Len(pending))
            => /\ step' = (step + 1) % 4
               /\ Len(pending') = (4 - step') % 4 ]_vars

\* The Verdict phase is reached after the panel was closed during the session.
C1_Witness == step = 3 /\ pending # <<>> /\ selectedId = NULL

\* C2: the status flip, the wallet credit and the resets of the completion
\* callback happen in one step: any step that ends verification, changes the
\* registry or changes the balance is the completion callback of the due
\* session, and its post-state has phase Idle, isVerifying false, an empty
\* form, the target location fresh and the balance raised by the reward.
C2_CompletionAtomic ==
    [][ ((isVerifying /\ ~isVerifying') \/ locations' # locations \/ balance' # balance)
            => /\ FinishIsNext
               /\ \E i \in DOMAIN locations' :
                      /\ locations'[i].id = pending[NextDue].id
                      /\ locations'[i].status = "fresh"
               /\ balance' = balance + BOUNTY_REWARD
               /\ step' = 0
               /\ ~isVerifying'
               /\ formData' = EmptyForm ]_vars

\* A completion has run while its target is still the selected location.
C2_Witness ==
    /\ selectedId = 1 /\ IsFresh(1)
    /\ balance = INITIAL_BALANCE + BOUNTY_REWARD
    /\ step = 0 /\ ~isVerifying /\ formData = EmptyForm

\* C3: a submit with no image attached changes nothing at all, and while no
\* image is attached no step starts verification, schedules a timer, or
\* changes the phase, the registry or the balance.
C3_SubmitWithoutImage ==
    [][ /\ (handleSubmit /\ formData.image = NULL) => UNCHANGED vars
        /\ formData.image = NULL =>
               UNCHANGED <<step, isVerifying, pending, locations, balance>> ]_vars

\* The form is shown with a note typed but no image attached.
C3_Witness ==
    FormRendered /\ formData.image = NULL /\ formData.description # <<>>

\* C4: a step taking the phase from Idle to Scanning starts from a state with
\* a selected location that is stale and an attached image, and the three
\* callbacks it schedules carry the selected location's id.
C4_EntryCondition ==
    [][ (step = 0 /\ step' = 1)
            => /\ selectedLocation # <<>>
               /\ selectedLocation[1].status = "stale"
               /\ formData.image # NULL
               /\ Len(pending') = Len(pending) + 3
               /\ \A i \in (Len(pending) + 1)..Len(pending') :
                      pending'[i].id = selectedLocation[1].id ]_vars

\* A session has just been started for the selected location.
C4_Witness ==
    /\ step = 1 /\ Len(pending) = 3
    /\ pending[1].delay = 1500 /\ pending[3].id = selectedId

\* C5: the pending callbacks always belong to one session: at most three, of
\* distinct kinds, for the same target, with the completion callback among
\* them, and only while isVerifying is set.
C5_SingleSession ==
    /\ Len(pending) <= 3
    /\ \A i, j \in DOMAIN pending :
           /\ pending[i].id = pending[j].id
           /\ (i # j => pending[i].cb # pending[j].cb)
    /\ pending # <<>> => (isVerifying /\ \E id \in SeedIds : InFlight(id))
    /\ isVerifying <=> pending # <<>>

\* A session is in flight while another location's panel is open.
C5_Witness ==
    /\ pending # <<>> /\ selectedId # NULL
    /\ selectedId # pending[1].id

\* C6: the balance is the initial balance plus one reward per location that
\* was seeded stale and is now fresh, and no step lowers it.
C6_BalanceAccounting ==
    /\ [](balance = INITIAL_BALANCE + BOUNTY_REWARD *
              Cardinality({i \in DOMAIN LOCATIONS :
                  /\ LOCATIONS[i].status = "stale"
                  /\ i \in DOMAIN locations
                  /\ locations[i].status = "fresh"}))
    /\ [][balance' >= balance]_vars

\* The one bounty has been paid and the panel shows another location.
C6_Witness == balance = INITIAL_BALANCE + BOUNTY_REWARD /\ selectedId = 2

\* C7: the registry keeps the seeded entries in seed order with their id,
\* name, position and type; a status only changes from stale to fresh, and
\* only in the completion callback.
C7_RegistryStable ==
    /\ [](/\ Len(locations) = Len(LOCATIONS)
          /\ \A i \in DOMAIN LOCATIONS :
                 /\ locations[i].id = LOCATIONS[i].id
                 /\ locations[i].name = LOCATIONS[i].name
                 /\ locations[i].position = LOCATIONS[i].position
                 /\ locations[i].type = LOCATIONS[i].type
                 /\ locations[i].status \in {"stale", "fresh"})
    /\ [][ /\ \A i \in DOMAIN locations :
                  locations[i].status = "fresh" =>
                      (i \in DOMAIN locations' /\ locations'[i].status = "fresh")
           /\ locations' # locations => FinishIsNext ]_vars

\* The registry differs from the seed: a status has been flipped.
C7_Witness == locations # LOCATIONS /\ IsFresh(1) /\ pending = <<>>

\* C8: a session in flight for location id, with the balance at b, leads to a
\* state where id is fresh, the balance is b plus the reward and the session
\* is over, whatever is selected meanwhile (given that timers fire).
C8_SessionCompletes ==
    \A id \in SeedIds : \A b \in Balances :
        (InFlight(id) /\ balance = b)
            ~> (IsFresh(id) /\ balance = b + BOUNTY_REWARD
                    /\ ~isVerifying /\ pending = <<>>)

\* The completion callback is due while the panel is closed.
C8_Witness ==
    /\ FinishIsNext /\ selectedId = NULL
    /\ IsStale(pending[NextDue].id)

\* C9, as stated: the step that closes the panel leaves the phase Idle and the
\* form empty.
C9_CloseDestroysSession ==
    [][ (selectedId # NULL /\ selectedId' = NULL)
            => (step' = 0 /\ formData' = EmptyForm) ]_vars

\* C9, amended: the step that closes the panel changes the selection only;
\* phase, isVerifying, form contents and pending callbacks are as before.
C9_CloseKeepsSession ==
    [][ (selectedId # NULL /\ selectedId' = NULL)
            => UNCHANGED <<step, isVerifying, formData, pending, locations, balance>> ]_vars

\* The panel is closed in the middle of a session, the form still filled in.
C9_Witness ==
    /\ selectedId = NULL /\ isVerifying
    /\ step = 2 /\ formData.image # NULL

\* C10: a step that changes the selection changes nothing else and is a
\* beacon click or the panel close; a click selects the clicked id whether or
\* not it was selected already; submit, time and timer callbacks leave the
\* selection alone.
C10_SelectionFrame ==
    [][ /\ selectedId' # selectedId =>
               /\ UNCHANGED <<locations, balance, formData, isVerifying, step, pending>>
               /\ selectedId' \in SeedIds \cup {NULL}
        /\ \A id \in SeedIds : onClick(id) => selectedId' = id
        /\ (handleSubmit \/ TimerStep2 \/ TimerStep3 \/ TimerFinish
                \/ pending' # pending) => selectedId' = selectedId ]_vars

\* Location 1 has been verified and paid while location 3 is the selection.
C10_Witness ==
    /\ selectedId = 3 /\ IsFresh(1) /\ step = 0
    /\ balance = INITIAL_BALANCE + BOUNTY_REWARD

====
